---- MODULE Spec2Model ----
(***************************************************************************)
(* Model of functionalpearl.py: a daily DCA bot.  main() registers a daily *)
(* job with the schedule library, runs execute_trade_logic() once at       *)
(* startup and then polls schedule.run_pending() once a second.            *)
(* execute_trade_logic() opens a pybit HTTP session, fetches the k-lines,  *)
(* builds a pandas DataFrame, lets pandas_ta append the RSI_14 and EMA_n   *)
(* columns, reads the latest values, evaluates the two buy rules and       *)
(* prints a simulated order.                                               *)
(*                                                                         *)
(* Time is counted in ticks, TicksPerDay of them in a calendar day; the    *)
(* one-second poll interval is shorter than a tick.  Floats are exact      *)
(* fractions or NaN.                                                       *)
(***************************************************************************)
EXTENDS Integers, Sequences, FiniteSets, TLC

VARIABLES
    config,              \* strategy_config (lines 35-39), fixed for the process lifetime
    now,                 \* the wall clock, in ticks since midnight of day 0
    next_run,            \* the schedule job's next_run; -1 before the job is registered
    pc,                  \* position of the process
    origin,              \* caller of the running cycle: "startup", "trigger" or "none"
    elapsed,             \* ticks spent waiting for the exchange in the running cycle
    polled,              \* run_pending() found nothing due since the last tick
    kline_response,      \* local of execute_trade_logic: the adapter's reply
    df,                  \* local: DataFrame rows, [timestamp, close]
    columns,             \* local: indicator columns appended to df
    latest_close,        \* local (line 97)
    latest_rsi,          \* local (line 98)
    latest_ema,          \* local (line 103)
    buy_conditions_met,  \* local (line 108); <<>> while unbound, else <<b>>
    reasons,             \* "Buy condition NOT met" lines printed in this cycle, in order
    outcome,             \* last closing line printed by a cycle
    failure,             \* exception raised in the running / last cycle
    steps,               \* stages the running / last cycle went through
    fetched,             \* retCode of the reply received in the running / last cycle
    bars,                \* number of bars in the reply of the running / last cycle
    simulated,           \* simulated-order lines printed by the running / last cycle
    submitted,           \* calls of session.place_order made by the process
    startups,            \* number of cycles started from line 173
    polls,               \* TRUE once run_pending() has been called
    lastTriggerDay,      \* calendar day of the last cycle started by run_pending()
    scenario,            \* which candle lists the exchange serves in this run
    watch,               \* a candle list whose first evaluation is remembered
    memo                 \* the remembered evaluation of watch

vars == <<config, now, next_run, pc, origin, elapsed, polled, kline_response, df,
          columns, latest_close, latest_rsi, latest_ema, buy_conditions_met,
          reasons, outcome, failure, steps, fetched, bars, simulated,
          submitted, startups, polls, lastTriggerDay, scenario, watch, memo>>

locals == <<kline_response, df, columns, latest_close, latest_rsi, latest_ema,
            buy_conditions_met, reasons>>

----------------------------------------------------------------------------
(* Bounds *)

TicksPerDay == 3
MaxDay == 2
MaxCycleTicks == 1
MaxPrice == 3
MaxTail == 3
ExtraBars == 2

(* Program constants *)

TradeTime == 1
RSI_LENGTH == 14

MaxTime == (MaxDay + 1) * TicksPerDay - 1
MaxBars == RSI_LENGTH + ExtraBars

DayOf(t) == t \div TicksPerDay
TimeOfDay(t) == t % TicksPerDay

----------------------------------------------------------------------------
(* Floats: exact fractions in lowest terms, or NaN.  Unbound marks a local *)
(* that has not been assigned.                                             *)

RECURSIVE GCD(_, _)
GCD(a, b) == IF b = 0 THEN a ELSE GCD(b, a % b)

Abs(x) == IF x < 0 THEN -x ELSE x

NaN == [nan |-> TRUE, n |-> 0, d |-> 1]
Unbound == [nan |-> FALSE, n |-> 0, d |-> 0]

Frac(n, d) ==
    LET g == GCD(Abs(n), d)
    IN [nan |-> FALSE, n |-> n \div g, d |-> d \div g]

Num(i) == [nan |-> FALSE, n |-> i, d |-> 1]

\* Python's float comparisons: every comparison with NaN is False.
Ge(a, b) == ~a.nan /\ ~b.nan /\ a.n * b.d >= b.n * a.d
Lt(a, b) == ~a.nan /\ ~b.nan /\ a.n * b.d < b.n * a.d
Gt(a, b) == ~a.nan /\ ~b.nan /\ a.n * b.d > b.n * a.d
Eq(a, b) == ~a.nan /\ ~b.nan /\ a.n * b.d = b.n * a.d

----------------------------------------------------------------------------
(* The exchange's replies.  A k-line row is [timestamp, close]; close is   *)
(* the price as a string, "" standing for a string float() rejects.  Bybit *)
(* lists the newest bar first.                                             *)

NotANumber == 0 - 1

PriceText == <<"1", "2", "3", "4", "5", "6", "7", "8", "9">>
Text(v) == IF v = NotANumber THEN "" ELSE PriceText[v]

Min(a, b) == IF a < b THEN a ELSE b

Reverse(s) == [i \in 1..Len(s) |-> s[Len(s) + 1 - i]]

\* n closes, oldest first: a constant run of c followed by the values of tail.
Closes(n, c, tail) ==
    [i \in 1..n |-> IF i <= n - Len(tail) THEN c ELSE tail[i - (n - Len(tail))]]

\* The reply list for closes given oldest first: newest first, timestamp = age rank.
KlineList(cl) ==
    [i \in 1..Len(cl) |->
        [timestamp |-> Len(cl) + 1 - i, close |-> Text(cl[Len(cl) + 1 - i])]]

BarCounts == {0, 1} \cup (RSI_LENGTH..MaxBars)

Tails(n) == [1..Min(n, MaxTail) -> 1..MaxPrice]

GoodLists ==
    {KlineList(Closes(n, c, t)) : <<n, c, t>> \in
        {<<n, c, t>> \in BarCounts \X (1..MaxPrice) \X
            UNION {Tails(m) : m \in BarCounts} : t \in Tails(n)}}

BadLists == {KlineList(<<NotANumber>>), KlineList(<<1, NotANumber>>)}

\* A short programme of replies used to compare repeated cycles.
ReplayLists ==
    { KlineList(<<>>),
      KlineList(<<NotANumber>>),
      KlineList(Closes(RSI_LENGTH, 1, <<1>>)),
      KlineList(Closes(RSI_LENGTH + 2, 2, <<1, 3, 2>>)),
      KlineList(Closes(RSI_LENGTH + 2, 2, <<3, 2, 1>>)),
      KlineList(Closes(RSI_LENGTH + 2, 2, <<1, 2, 3>>)) }

\* The shortest programme that takes a cycle through every stage.
ProbeLists ==
    { KlineList(<<>>),
      KlineList(<<NotANumber>>),
      KlineList(Closes(RSI_LENGTH + 2, 2, <<3, 2, 1>>)) }

\* Replies that list the bars in another order than newest first.
SwapFirstTwo(l) ==
    [i \in 1..Len(l) |-> IF i = 1 THEN l[2] ELSE IF i = 2 THEN l[1] ELSE l[i]]

\* The reply list for closes given oldest first, listed oldest first.
AscendingList(cl) ==
    [i \in 1..Len(cl) |-> [timestamp |-> i, close |-> Text(cl[i])]]

OrderLists ==
    ProbeLists \cup
    { AscendingList(Reverse(Closes(RSI_LENGTH + 2, 2, <<3, 2, 1>>))),
      SwapFirstTwo(KlineList(Closes(RSI_LENGTH + 2, 2, <<3, 2, 1>>))),
      SwapFirstTwo(KlineList(Closes(RSI_LENGTH + 2, 2, <<1, 3, 2>>))) }

Lists(sc) ==
    IF sc = "full" THEN GoodLists \cup BadLists
    ELSE IF sc = "replay" THEN ReplayLists
    ELSE IF sc = "orders" THEN OrderLists
    ELSE ProbeLists

Responses(sc) ==
    {[retCode |-> 0, list |-> l] : l \in Lists(sc)}
        \cup {[retCode |-> 10001, list |-> <<>>]}

NoResponse == [retCode |-> 0 - 1, list |-> <<>>]
NoWatch == <<[timestamp |-> 0, close |-> ""]>>

----------------------------------------------------------------------------
(* pandas / pandas_ta as called in lines 85-93 *)

\* df['close'].astype(float): fails on a string that is not a number.
Parseable(raw) == \E v \in DOMAIN PriceText : PriceText[v] = raw
ToFloat(raw) == CHOOSE v \in DOMAIN PriceText : PriceText[v] = raw

AllParseable(list) == \A i \in 1..Len(list) : Parseable(list[i].close)

\* Variant: the rows are kept in the order of the reply.
BuildFrameAsListed(list) ==
    [i \in 1..Len(list) |->
        [timestamp |-> list[i].timestamp, close |-> ToFloat(list[i].close)]]

\* pd.DataFrame(...) / astype(float) / df.iloc[::-1].reset_index(drop=True)
BuildFrame(list) ==
    Reverse([i \in 1..Len(list) |->
        [timestamp |-> list[i].timestamp, close |-> ToFloat(list[i].close)]])

Gain(frame, i) == IF frame[i].close > frame[i-1].close
                  THEN frame[i].close - frame[i-1].close ELSE 0
Loss(frame, i) == IF frame[i].close < frame[i-1].close
                  THEN frame[i-1].close - frame[i].close ELSE 0

GCD3(a, b, c) == GCD(GCD(a, b), c)

\* One step of the exponentially weighted sums: a holds the weighted gains
\* and losses so far as p/s and q/s over a common scale s.
RmaStep(a, gain, loss) ==
    LET p1 == (RSI_LENGTH - 1) * a.p + RSI_LENGTH * a.s * gain
        q1 == (RSI_LENGTH - 1) * a.q + RSI_LENGTH * a.s * loss
        s1 == RSI_LENGTH * a.s
        g == GCD3(p1, q1, s1)
    IN [p |-> p1 \div g, q |-> q1 \div g, s |-> s1 \div g]

\* rma(): ewm(alpha=1/length, adjust=True).mean() of the gains and of the
\* losses up to row i (the common normaliser of the two means cancels in
\* the RSI quotient).
RECURSIVE Rma(_, _)
Rma(frame, i) ==
    IF i <= 1 THEN [p |-> 0, q |-> 0, s |-> 1]
    ELSE CHOOSE r \in {RmaStep(a, Gain(frame, i), Loss(frame, i)) :
                            a \in {Rma(frame, i - 1)}} : TRUE

\* Variant: the indicator is computed on a frame of any length.
HasRsiAlways(frame) == TRUE

\* Variant: the column needs one bar more than the length.
HasRsiStrict(frame) == Len(frame) > RSI_LENGTH

\* df.ta.rsi(append=True): no column when the frame is shorter than the
\* length; NaN until `length` differences exist; 100 * up / (up + down).
HasRsi(frame) == Len(frame) >= RSI_LENGTH

\* Variant: the difference of the sums in the numerator.
RsiQuotientSigned(a) ==
    IF a.p + a.q = 0 THEN NaN ELSE Frac(100 * (a.p - a.q), a.p + a.q)

RsiQuotient(a) == IF a.p + a.q = 0 THEN NaN ELSE Frac(100 * a.p, a.p + a.q)

RsiValue(frame) ==
    IF Len(frame) - 1 < RSI_LENGTH THEN NaN
    ELSE CHOOSE r \in {RsiQuotient(a) : a \in {Rma(frame, Len(frame))}} : TRUE

\* The RSI_14 column, row i.
RsiAt(frame, i) ==
    IF i - 1 < RSI_LENGTH THEN NaN
    ELSE CHOOSE r \in {RsiQuotient(a) : a \in {Rma(frame, i)}} : TRUE

RECURSIVE SumCloses(_, _)
SumCloses(frame, k) == IF k = 0 THEN 0 ELSE SumCloses(frame, k - 1) + frame[k].close

\* df.ta.ema(length=L, append=True): seeded with the mean of the first L
\* closes, then ema = close * 2/(L+1) + ema * (L-1)/(L+1).
HasEma(frame, L) == Len(frame) >= L

EmaStep(e, close, L) == Frac(2 * close * e.d + (L - 1) * e.n, (L + 1) * e.d)

RECURSIVE EmaAt(_, _, _)
EmaAt(frame, L, i) ==
    IF i <= L THEN Frac(SumCloses(frame, L), L)
    ELSE CHOOSE r \in {EmaStep(e, frame[i].close, L) :
                            e \in {EmaAt(frame, L, i - 1)}} : TRUE

EmaValue(frame, L) == EmaAt(frame, L, Len(frame))

----------------------------------------------------------------------------
(* The schedule library as used in lines 169 and 178 *)

\* next occurrence of trade_time strictly after t
RECURSIVE NextAt(_)
NextAt(t) == IF TimeOfDay(t + 1) = TradeTime THEN t + 1 ELSE NextAt(t + 1)

\* Variant: every return reschedules the job, also the direct call of line 173.
NextRunAfterViaJob(o, t, nr) == NextAt(t)

\* Variant: the job is not rescheduled after it ran.
NextRunAfterKept(o, t, nr) == nr

\* Job.should_run
ShouldRun(t, nr) == t >= nr

\* Job.run reschedules the job after the job function returned; the call
\* in line 173 bypasses the job.
NextRunAfter(o, t, nr) == IF o = "trigger" THEN NextAt(t) ELSE nr

----------------------------------------------------------------------------
(* Configuration (lines 35-39).  The source sets rsi_buy_threshold = 50,   *)
(* use_ema_filter = True, ema_period = 50; the model lets the process      *)
(* start under any configuration of a small family.                        *)

RsiThresholds == {0, 50, 100}
EmaPeriods == {RSI_LENGTH + 1, RSI_LENGTH + 2}

Configs ==
    {[rsi_buy_threshold |-> t, use_ema_filter |-> TRUE, ema_period |-> L] :
        t \in RsiThresholds, L \in EmaPeriods}
    \cup
    {[rsi_buy_threshold |-> t, use_ema_filter |-> FALSE,
      ema_period |-> RSI_LENGTH + 1] : t \in RsiThresholds}

----------------------------------------------------------------------------
(* Initial states: main() is entered.                                      *)

InitProcess ==
    /\ config \in Configs
    /\ now \in 0..(TicksPerDay - 1)
    /\ next_run = 0 - 1
    /\ pc = "register"
    /\ origin = "none"
    /\ elapsed = 0
    /\ polled = FALSE
    /\ kline_response = NoResponse
    /\ df = <<>>
    /\ columns = {}
    /\ latest_close = Unbound
    /\ latest_rsi = Unbound
    /\ latest_ema = Unbound
    /\ buy_conditions_met = <<>>
    /\ reasons = <<>>
    /\ outcome = "none"
    /\ failure = "none"
    /\ steps = {}
    /\ fetched = 0 - 1
    /\ bars = 0 - 1
    /\ simulated = 0
    /\ submitted = 0
    /\ startups = 0
    /\ polls = FALSE
    /\ lastTriggerDay = 0 - 1
    /\ memo = <<>>

Init == InitProcess /\ scenario = "full" /\ watch = NoWatch

InitReplay == InitProcess /\ scenario = "replay" /\ watch \in ReplayLists

InitOrders == InitProcess /\ scenario = "orders" /\ watch = NoWatch

InitProbe ==
    /\ InitProcess
    /\ scenario = "probe"
    /\ watch = NoWatch
    /\ config.use_ema_filter
    /\ config.rsi_buy_threshold = 50

----------------------------------------------------------------------------
(* Entering and leaving execute_trade_logic                                *)

FreshLocals ==
    /\ kline_response' = NoResponse
    /\ df' = <<>>
    /\ columns' = {}
    /\ latest_close' = Unbound
    /\ latest_rsi' = Unbound
    /\ latest_ema' = Unbound
    /\ buy_conditions_met' = <<>>
    /\ reasons' = <<>>

\* line 60-64: a call of execute_trade_logic by caller o
BeginCycle(o) ==
    /\ pc' = "session"
    /\ origin' = o
    /\ elapsed' = 0
    /\ failure' = "none"
    /\ steps' = {}
    /\ fetched' = 0 - 1
    /\ bars' = 0 - 1
    /\ simulated' = 0
    /\ FreshLocals
    /\ UNCHANGED <<outcome, submitted>>

\* The evaluation of the watched list that the cycle leaves behind.
Remember(list, met, rs, out) ==
    IF list = watch /\ Len(memo) < 2
    THEN Append(memo, [met |-> met, reasons |-> rs, outcome |-> out])
    ELSE IF list = watch
    THEN <<memo[1], [met |-> met, reasons |-> rs, outcome |-> out]>>
    ELSE memo

\* execute_trade_logic returns: to line 173 and on into the loop, or to
\* Job.run, which reschedules the job, and on into the loop.
Return ==
    /\ pc' = "idle"
    /\ next_run' = NextRunAfter(origin, now, next_run)
    /\ origin' = "none"
    /\ FreshLocals

\* lines 154-155: except Exception, print, fall off the end
Caught(kind) ==
    /\ failure' = kind
    /\ outcome' = "exception"
    /\ Return

----------------------------------------------------------------------------
(* main(), lines 161-179                                                   *)

\* line 169: schedule.every().day.at(trade_time).do(execute_trade_logic)
Register ==
    /\ pc = "register"
    /\ next_run' = NextAt(now)
    /\ pc' = "startup"
    /\ UNCHANGED <<fetched, bars, simulated, submitted,
                   config, now, origin, elapsed, polled, locals, outcome, failure,
                   steps, startups, polls, lastTriggerDay, scenario, watch, memo>>

\* line 173: execute_trade_logic() called directly
StartupCycle ==
    /\ pc = "startup"
    /\ BeginCycle("startup")
    /\ startups' = startups + 1
    /\ UNCHANGED <<config, now, next_run, polled, polls, lastTriggerDay,
                   scenario, watch, memo>>

\* Variant: the job runs in a thread of its own, the loop goes on polling.
AtLoopThreaded == pc \notin {"register", "startup", "crashed"}

\* lines 173-179: the calls are synchronous, so line 178 is reached only
\* when no call of execute_trade_logic is in progress
AtLoop == pc = "idle"

\* lines 178-179, a job is due: run_pending() calls execute_trade_logic
PollRun ==
    /\ AtLoop
    /\ ShouldRun(now, next_run)
    /\ BeginCycle("trigger")
    /\ polls' = TRUE
    /\ polled' = FALSE
    /\ lastTriggerDay' = DayOf(now)
    /\ UNCHANGED <<config, now, next_run, startups, scenario, watch, memo>>

\* lines 178-179, nothing due: run_pending() returns, sleep a second
PollSleep ==
    /\ AtLoop
    /\ ~ShouldRun(now, next_run)
    /\ polls' = TRUE
    /\ polled' = TRUE
    /\ UNCHANGED <<fetched, bars, simulated, submitted,
                   config, now, next_run, pc, origin, elapsed, locals, outcome,
                   failure, steps, startups, lastTriggerDay, scenario, watch, memo>>

----------------------------------------------------------------------------
(* execute_trade_logic(), lines 60-155                                     *)

\* line 65: HTTP(...) returns a session
CreateSession ==
    /\ pc = "session"
    /\ pc' = "fetch"
    /\ steps' = steps \cup {"session"}
    /\ UNCHANGED <<fetched, bars, simulated, submitted,
                   config, now, next_run, origin, elapsed, polled, locals, outcome,
                   failure, startups, polls, lastTriggerDay, scenario, watch, memo>>

\* line 65: HTTP(...) raises; the call stands before the try of line 68,
\* so the exception leaves execute_trade_logic and main: the process ends.
SessionRaises ==
    /\ pc = "session"
    /\ pc' = "crashed"
    /\ failure' = "session"
    /\ origin' = "none"
    /\ FreshLocals
    /\ UNCHANGED <<fetched, bars, simulated, submitted,
                   config, now, next_run, elapsed, polled, outcome, steps,
                   startups, polls, lastTriggerDay, scenario, watch, memo>>

\* lines 70-75: get_kline raises (network, pybit error)
FetchRaises ==
    /\ pc = "fetch"
    /\ Caught("fetch")
    /\ steps' = steps \cup {"fetch"}
    /\ UNCHANGED <<fetched, bars, simulated, submitted,
                   config, now, elapsed, polled, startups, polls, lastTriggerDay,
                   scenario, watch, memo>>

\* Variant: the reply's code is not looked at.
RetOkAlways(code) == TRUE

\* line 78
RetOk(code) == code = 0

\* lines 70-80: get_kline returns a reply with an error code
FetchError ==
    /\ pc = "fetch"
    /\ \E r \in Responses(scenario) :
        /\ ~RetOk(r.retCode)
        /\ fetched' = r.retCode
        /\ outcome' = "fetch_error"
        /\ failure' = "retCode"
        /\ Return
    /\ steps' = steps \cup {"fetch"}
    /\ UNCHANGED <<bars, simulated, submitted, config, now, elapsed, polled, startups, polls, lastTriggerDay,
                   scenario, watch, memo>>

\* lines 70-78: get_kline returns a reply that passes the check of line 78
FetchOk ==
    /\ pc = "fetch"
    /\ \E r \in Responses(scenario) :
        /\ RetOk(r.retCode)
        /\ fetched' = r.retCode
        /\ bars' = Len(r.list)
        /\ kline_response' = r
    /\ pc' = "build"
    /\ steps' = steps \cup {"fetch"}
    /\ UNCHANGED <<simulated, submitted, config, now, next_run, origin, elapsed, polled, df, columns,
                   latest_close, latest_rsi, latest_ema, buy_conditions_met,
                   reasons, outcome, failure, startups, polls, lastTriggerDay,
                   scenario, watch, memo>>

\* lines 84-87, astype(float) raises ValueError
BuildRaises ==
    /\ pc = "build"
    /\ ~AllParseable(kline_response.list)
    /\ Caught("build")
    /\ steps' = steps \cup {"build"}
    /\ memo' = Remember(kline_response.list, <<>>, <<>>, "exception")
    /\ UNCHANGED <<fetched, bars, simulated, submitted,
                   config, now, elapsed, polled, startups, polls, lastTriggerDay,
                   scenario, watch>>

\* lines 84-87
Build ==
    /\ pc = "build"
    /\ AllParseable(kline_response.list)
    /\ df' = BuildFrame(kline_response.list)
    /\ pc' = "indicators"
    /\ steps' = steps \cup {"build"}
    /\ UNCHANGED <<fetched, bars, simulated, submitted,
                   config, now, next_run, origin, elapsed, polled, kline_response,
                   columns, latest_close, latest_rsi, latest_ema,
                   buy_conditions_met, reasons, outcome, failure, startups, polls,
                   lastTriggerDay, scenario, watch, memo>>

\* lines 91-93
Indicators ==
    /\ pc = "indicators"
    /\ columns' = (IF HasRsi(df) THEN {"RSI"} ELSE {})
                    \cup (IF config.use_ema_filter /\ HasEma(df, config.ema_period)
                          THEN {"EMA"} ELSE {})
    /\ pc' = "latest"
    /\ steps' = steps \cup {"indicators"}
    /\ UNCHANGED <<fetched, bars, simulated, submitted,
                   config, now, next_run, origin, elapsed, polled, kline_response,
                   df, latest_close, latest_rsi, latest_ema, buy_conditions_met,
                   reasons, outcome, failure, startups, polls, lastTriggerDay,
                   scenario, watch, memo>>

\* lines 97-104 succeed when the frame has a last row and the columns exist
Readable ==
    /\ Len(df) > 0
    /\ "RSI" \in columns
    /\ config.use_ema_filter => "EMA" \in columns

\* lines 97-104, IndexError (empty frame) or KeyError (column not appended)
LatestRaises ==
    /\ pc = "latest"
    /\ ~Readable
    /\ Caught("latest")
    /\ steps' = steps \cup {"latest"}
    /\ memo' = Remember(kline_response.list, <<>>, <<>>, "exception")
    /\ UNCHANGED <<fetched, bars, simulated, submitted,
                   config, now, elapsed, polled, startups, polls, lastTriggerDay,
                   scenario, watch>>

\* lines 97-104
Latest ==
    /\ pc = "latest"
    /\ Readable
    /\ latest_close' = Num(df[Len(df)].close)
    /\ latest_rsi' = RsiValue(df)
    /\ latest_ema' = IF config.use_ema_filter
                     THEN EmaValue(df, config.ema_period) ELSE Unbound
    /\ pc' = "evaluate"
    /\ steps' = steps \cup {"latest"}
    /\ UNCHANGED <<fetched, bars, simulated, submitted,
                   config, now, next_run, origin, elapsed, polled, kline_response,
                   df, columns, buy_conditions_met, reasons, outcome, failure,
                   startups, polls, lastTriggerDay, scenario, watch, memo>>

\* Variant: the flag is a global that keeps a refusal of the last cycle.
InitialFlagStale == outcome # "no_action"

\* line 108
InitialFlag == TRUE

\* Variant: the RSI rule written with >.
RsiUnmetStrict(rsi, cfg) == Gt(rsi, Num(cfg.rsi_buy_threshold))

\* Variant: the EMA rule written with >.
EmaUnmetStrict(close, ema, cfg) == cfg.use_ema_filter /\ Gt(close, ema)

\* line 111
RsiUnmet(rsi, cfg) == Ge(rsi, Num(cfg.rsi_buy_threshold))

\* line 117
EmaUnmet(close, ema, cfg) == cfg.use_ema_filter /\ Ge(close, ema)

\* Variant: the second rule as an elif of the first.
ReasonsFirstOnly(c1, c2) ==
    IF c1 THEN <<"rsi">> ELSE IF c2 THEN <<"ema">> ELSE <<>>

\* lines 111-119: two independent if statements, each printing its line
Reasons(c1, c2) ==
    (IF c1 THEN <<"rsi">> ELSE <<>>) \o (IF c2 THEN <<"ema">> ELSE <<>>)

\* lines 108-119
Evaluate ==
    /\ pc = "evaluate"
    /\ LET c1 == RsiUnmet(latest_rsi, config)
           c2 == EmaUnmet(latest_close, latest_ema, config)
           b0 == InitialFlag
           b1 == IF c1 THEN FALSE ELSE b0
           b2 == IF c2 THEN FALSE ELSE b1
       IN /\ buy_conditions_met' = <<b2>>
          /\ reasons' = Reasons(c1, c2)
    /\ pc' = "act"
    /\ steps' = steps \cup {"decide"}
    /\ UNCHANGED <<fetched, bars, simulated, submitted,
                   config, now, next_run, origin, elapsed, polled, kline_response,
                   df, columns, latest_close, latest_rsi, latest_ema, outcome,
                   failure, startups, polls, lastTriggerDay, scenario, watch, memo>>

\* Variant: the order line is printed whatever the flag says.
ShouldOrderAlways(met) == TRUE

\* line 123
ShouldOrder(met) == met[1]

\* Variant: the block of lines 128-141 uncommented.
LiveTradingOn == TRUE

\* lines 126-143: the call of session.place_order is commented out
LiveTrading == FALSE

\* lines 123-151: print the simulated order or "no action", and return
Act ==
    /\ pc = "act"
    /\ LET order == ShouldOrder(buy_conditions_met)
           out == IF order THEN "simulated" ELSE "no_action"
       IN /\ outcome' = out
          /\ memo' = Remember(kline_response.list, buy_conditions_met, reasons, out)
          /\ steps' = IF order THEN steps \cup {"simulate"} ELSE steps
          /\ simulated' = IF order THEN simulated + 1 ELSE simulated
          /\ submitted' = IF order /\ LiveTrading THEN submitted + 1 ELSE submitted
    /\ Return
    /\ UNCHANGED <<fetched, bars, config, now, elapsed, polled, failure, startups, polls,
                   lastTriggerDay, scenario, watch>>

----------------------------------------------------------------------------
(* The wall clock                                                          *)

\* Time passes: between two polls of the idle loop (which polls at least
\* once per tick), while a cycle waits for the exchange (at most
\* MaxCycleTicks per cycle), and after the process has ended.
Tick ==
    /\ now < MaxTime
    /\ \/ pc = "idle" /\ polled
       \/ pc \in {"session", "fetch"} /\ elapsed < MaxCycleTicks
       \/ pc = "crashed"
    /\ now' = now + 1
    /\ elapsed' = IF pc \in {"session", "fetch"} THEN elapsed + 1 ELSE elapsed
    /\ polled' = FALSE
    /\ UNCHANGED <<fetched, bars, simulated, submitted,
                   config, next_run, pc, origin, locals, outcome, failure, steps,
                   startups, polls, lastTriggerDay, scenario, watch, memo>>

Step ==
    \/ Register \/ StartupCycle \/ PollRun \/ PollSleep
    \/ CreateSession \/ SessionRaises
    \/ FetchRaises \/ FetchError \/ FetchOk
    \/ BuildRaises \/ Build
    \/ Indicators
    \/ LatestRaises \/ Latest
    \/ Evaluate \/ Act

Next == Step \/ Tick

Spec == Init /\ [][Next]_vars

SpecReplay == InitReplay /\ [][Next]_vars

SpecOrders == InitOrders /\ [][Next]_vars

\* The interpreter keeps running the process: a step that is possible is taken.
FairProbe == InitProbe /\ [][Next]_vars /\ WF_vars(Step)

TypeOK ==
    /\ config \in Configs
    /\ now \in 0..MaxTime
    /\ pc \in {"register", "startup", "idle", "session", "fetch", "build",
               "indicators", "latest", "evaluate", "act", "crashed"}
    /\ origin \in {"none", "startup", "trigger"}
    /\ elapsed \in 0..MaxCycleTicks
    /\ buy_conditions_met \in {<<>>, <<TRUE>>, <<FALSE>>}
    /\ startups \in 0..1

----------------------------------------------------------------------------
(* Properties                                                              *)

Threshold == Num(config.rsi_buy_threshold)
Decided == pc = "act"

\* C1: every failure raised in a cycle (session creation, fetch, building
\* the frame, indicators) is caught at the cycle boundary: once a failure
\* was raised the scheduler is back in Idle and the process has not ended.
C1_FailureCaught ==
    failure # "none" => pc = "idle"

\* C2: a failed cycle does not prevent later cycles: whenever the clock has
\* reached the job's trigger time, a triggered cycle eventually starts.
C2_TriggerStartsCycle ==
    (next_run >= 0 /\ now >= next_run /\ origin # "trigger") ~> (origin = "trigger")

\* C3: exactly one cycle is started at process start, right after the job
\* is registered and before the first poll, at any clock time; the startup
\* cycle leaves the job's next_run alone, so the day's trigger stays due.
C3_StartupCycle ==
    [][ /\ (pc = "startup" => pc' = "session" /\ origin' = "startup" /\ ~polls')
        /\ (startups' # startups => startups = 0 /\ startups' = 1 /\ pc = "startup")
        /\ (origin = "startup" => next_run' = next_run) ]_vars

\* C3 witness: after the startup cycle of day 0 the triggered cycle of day 0 runs.
C3_Witness ==
    startups = 1 /\ origin = "trigger" /\ DayOf(now) = 0 /\ lastTriggerDay = 0

\* C4: run_pending() starts a cycle only once the clock has reached the
\* trigger time of the day, and on a day on which it has not started one yet.
C4_OncePerDay ==
    [][ (pc = "idle" /\ pc' = "session") =>
            /\ TimeOfDay(now) >= TradeTime
            /\ DayOf(now) # lastTriggerDay ]_vars

\* C4 witness: the day's triggered cycle failed, the loop polled again in
\* the trigger tick and started nothing.
C4_Witness ==
    /\ pc = "idle" /\ polled
    /\ lastTriggerDay = DayOf(now) /\ TimeOfDay(now) = TradeTime
    /\ failure \in {"fetch", "build", "latest", "retCode"}

\* C5: the decision is to buy exactly when the latest RSI is below the
\* threshold and (the EMA filter is off or the latest close is below the EMA).
C5_BuyIff ==
    Decided =>
        (buy_conditions_met = <<TRUE>>
            <=> /\ Lt(latest_rsi, Threshold)
                /\ (~config.use_ema_filter \/ Lt(latest_close, latest_ema)))

\* C6: a latest RSI equal to the threshold marks the RSI rule unmet and the
\* decision is not to buy, whatever the EMA filter says.
C6_RsiBoundary ==
    (Decided /\ Eq(latest_rsi, Threshold)) =>
        (reasons # <<>> /\ reasons[1] = "rsi" /\ buy_conditions_met = <<FALSE>>)

\* C6 witness: RSI on the threshold while the EMA rule is met.
C6_Witness ==
    Decided /\ Eq(latest_rsi, Threshold) /\ config.use_ema_filter
        /\ Lt(latest_close, latest_ema)

\* C7: with the EMA filter on, a latest close equal to the EMA marks the EMA
\* rule unmet and the decision is not to buy, even when the RSI rule is met.
C7_EmaBoundary ==
    (Decided /\ config.use_ema_filter /\ Eq(latest_close, latest_ema)) =>
        (reasons # <<>> /\ reasons[Len(reasons)] = "ema"
            /\ buy_conditions_met = <<FALSE>>)

\* C7 witness: close on the EMA while the RSI rule is met.
C7_Witness ==
    Decided /\ config.use_ema_filter /\ Eq(latest_close, latest_ema)
        /\ Lt(latest_rsi, Threshold)

C9_Deterministic ==
    /\ Len(memo) = 2 => memo[1] = memo[2]
    /\ (Decided /\ kline_response.list = watch /\ Len(memo) >= 1) =>
            (memo[1].met = buy_conditions_met /\ memo[1].reasons = reasons)

\* C9 witness: right after a failed cycle the list is evaluated again, with
\* the decision to buy it got the first time.
C9_Witness ==
    /\ Decided /\ kline_response.list = watch /\ Len(memo) >= 1
    /\ outcome = "exception" /\ buy_conditions_met = <<TRUE>>

\* C10: a reply with a non-zero retCode ends the cycle: no frame, no
\* indicators, no decision, no order; the scheduler is idle and running.
C10_FetchError ==
    fetched > 0 =>
        /\ steps \subseteq {"session", "fetch"}
        /\ outcome = "fetch_error"
        /\ pc = "idle"
        /\ df = <<>> /\ buy_conditions_met = <<>>

\* C10 witness: after such a reply the loop went on polling.
C10_Witness ==
    fetched > 0 /\ pc = "idle" /\ polled

Range(f) == {f[i] : i \in DOMAIN f}

\* C11 (as stated): an empty candle list fails in building the series,
\* before any indicator call, and no decision or order follows.
C11_EmptyFailsInBuild ==
    bars = 0 =>
        /\ "indicators" \notin steps
        /\ "decide" \notin steps /\ simulated = 0
        /\ (pc = "idle" => failure = "build")

\* C11 (amended): with an empty candle list the frame is built and the
\* indicator calls are made on it, appending no column; reading the last
\* row raises, the exception is caught, no decision or order follows.
C11_EmptyFailsAtRead ==
    bars = 0 =>
        /\ pc \in {"build", "indicators", "latest", "idle"}
        /\ columns = {}
        /\ "decide" \notin steps /\ simulated = 0
        /\ (pc = "idle" =>
                /\ failure = "latest" /\ outcome = "exception"
                /\ {"build", "indicators"} \subseteq steps)

\* C11 witness: a cycle that fetched an empty list has ended.
C11_Witness ==
    bars = 0 /\ pc = "idle" /\ failure = "latest"

EnoughBars ==
    /\ bars >= RSI_LENGTH
    /\ config.use_ema_filter => bars >= config.ema_period

\* C12 (as stated): with a non-empty candle series reading the indicators
\* never fails.
C12_NoIndicatorFailure ==
    bars > 0 => failure # "latest"

\* C12 (amended): with at least 14 bars, and at least ema_period bars when
\* the EMA filter is on, reading the indicators does not fail and the cycle
\* produces a decision; a shorter non-empty series ends the cycle in a
\* caught exception without a decision.
C12_ShortSeries ==
    /\ EnoughBars =>
            /\ failure # "latest"
            /\ (pc = "idle" /\ failure = "none" => "decide" \in steps)
    /\ (bars > 0 /\ ~EnoughBars) =>
            /\ "decide" \notin steps /\ simulated = 0
            /\ (pc = "idle" =>
                    failure \in {"build", "latest"} /\ outcome = "exception")

\* C12 witness: a series as short as the RSI length reaches a decision, on
\* an RSI that is NaN.
C12_Witness ==
    Decided /\ bars = RSI_LENGTH /\ latest_rsi = NaN

FrameBuilt == pc \in {"indicators", "latest", "evaluate", "act"}

Ascending(frame) ==
    \A i \in 1..(Len(frame) - 1) : frame[i].timestamp < frame[i + 1].timestamp

NewestFirst(list) ==
    \A i \in 1..(Len(list) - 1) : list[i].timestamp > list[i + 1].timestamp

NewestRow(list) ==
    CHOOSE r \in Range(list) : \A q \in Range(list) : q.timestamp <= r.timestamp

SeriesCanonical ==
    /\ Ascending(df)
    /\ (pc \in {"evaluate", "act"} =>
            latest_close = Num(ToFloat(NewestRow(kline_response.list).close)))

\* C13 (as stated): whatever the order of the bars in the reply, the frame
\* is ascending by timestamp and latest_close is the newest bar's close.
C13_AnyOrderCanonical ==
    FrameBuilt => SeriesCanonical

\* C13 (amended): when the reply lists the bars newest first, the frame is
\* ascending by timestamp and latest_close is the newest bar's close.
C13_NewestFirstCanonical ==
    (FrameBuilt /\ NewestFirst(kline_response.list)) => SeriesCanonical

\* C13 witness: a newest-first reply of several bars has been evaluated.
C13_Witness ==
    Decided /\ NewestFirst(kline_response.list) /\ Len(df) > RSI_LENGTH

CycleRunning ==
    pc \in {"session", "fetch", "build", "indicators", "latest", "evaluate", "act"}

\* C14: a cycle is entered only from line 173 or from the polling loop,
\* never while a cycle is running, also when the trigger time has passed
\* during the running cycle.
C14_NoOverlap ==
    [][ (pc' = "session" /\ pc # "session") => ~CycleRunning ]_vars

\* C14 witness: the trigger time has passed while the startup cycle runs.
C14_Witness ==
    CycleRunning /\ origin = "startup" /\ next_run >= 0 /\ now >= next_run

InRange(x) == Ge(x, Num(0)) /\ Ge(Num(100), x)

\* C15 (as stated): every value of the RSI column, and the latest RSI the
\* decision reads, lies in [0, 100].
C15_RsiInRange ==
    /\ (FrameBuilt /\ "RSI" \in columns) =>
            \A i \in 1..Len(df) : InRange(RsiAt(df, i))
    /\ pc \in {"evaluate", "act"} => InRange(latest_rsi)

\* C15 (amended): every value of the RSI column, and the latest RSI the
\* decision reads, is NaN or lies in [0, 100]; the first 14 rows are NaN.
C15_RsiInRangeOrNaN ==
    /\ (FrameBuilt /\ "RSI" \in columns) =>
            \A i \in 1..Len(df) :
                /\ RsiAt(df, i).nan \/ InRange(RsiAt(df, i))
                /\ i <= RSI_LENGTH => RsiAt(df, i).nan
    /\ pc \in {"evaluate", "act"} =>
            /\ latest_rsi.nan \/ InRange(latest_rsi)
            /\ latest_rsi = RsiAt(df, Len(df))

\* C15 witness: a latest RSI strictly inside the range.
C15_Witness ==
    Decided /\ Gt(latest_rsi, Num(0)) /\ Lt(latest_rsi, Num(100))

Flat(frame) == \A i \in 1..Len(frame) : frame[i].close = frame[1].close

\* C16: for a flat series and threshold 50 the decision is not to buy, with
\* the RSI rule reported unmet.
C16_FlatNoBuy ==
    (Decided /\ Flat(df) /\ config.rsi_buy_threshold = 50) =>
        (buy_conditions_met = <<FALSE>> /\ "rsi" \in Range(reasons))

\* C17: a decision to buy was taken on a latest RSI that is a number below
\* the threshold and, with the EMA filter on, an EMA that is a number above
\* the latest close.
C17_BuyOnlyOnNumbers ==
    (Decided /\ buy_conditions_met = <<TRUE>>) =>
        /\ ~latest_rsi.nan /\ Lt(latest_rsi, Threshold)
        /\ config.use_ema_filter =>
                (~latest_ema.nan /\ Gt(latest_ema, latest_close))

StagesInOrder ==
    /\ "build" \in steps => ("fetch" \in steps /\ fetched = 0)
    /\ "indicators" \in steps => "build" \in steps
    /\ "latest" \in steps => "indicators" \in steps
    /\ "decide" \in steps => "latest" \in steps
    /\ "simulate" \in steps => "decide" \in steps

\* C18: the stages of a cycle come in the order fetch, build, indicators,
\* decide, act; an order line is printed at most once per cycle, only
\* after a successful fetch and a decision to buy; a failed cycle or a
\* refusal prints none.
C18_OrderAfterDecision ==
    /\ [](/\ StagesInOrder
          /\ simulated <= 1
          /\ simulated = 1 =>
                (fetched = 0 /\ "simulate" \in steps /\ failure = "none"
                    /\ outcome = "simulated")
          /\ (failure # "none" \/ outcome = "no_action") => simulated = 0)
    /\ [][ simulated' > simulated =>
            (pc = "act" /\ buy_conditions_met = <<TRUE>>) ]_vars

\* C18 witness: a cycle has printed its order line and returned.
C18_Witness ==
    simulated = 1 /\ pc = "idle" /\ "simulate" \in steps

====
